---- MODULE Spec2Model ----
(***************************************************************************)
(* AI expense tracker: the retry wrapper around the language-model calls   *)
(* (withRetry), the Expense schema validation, and the line-driven         *)
(* interaction loop (rl.on('line') -> processUserInput) with the document  *)
(* store and the vector store behind it.                                   *)
(*                                                                         *)
(* Strings whose content the code inspects (toLowerCase, trim, includes)   *)
(* are sequences of one-character strings.                                 *)
(***************************************************************************)
EXTENDS Integers, Sequences, FiniteSets, TLC

\* ------------------------------------------------------------------ bounds

\* Largest maxRetries argument given to withRetry in the wrapper's own
\* specification (the cap of 60 s is reached twice from 8 attempts on).
MaxRetriesBound == 8

\* Number of input lines read from stdin in one run of the interaction loop.
MaxLines == 2

\* Number of calls made to the vector store service in one run.
MaxCalls == 4

\* Number of distinct expenses handed to the vector store service.
MaxExpenses == 2

\* Number of lines of a category definition file.
MaxFileLines == 3

\* Number of addExpense calls in flight on the service at the same time.
MaxAdders == 2

\* ------------------------------------------------------------ text helpers

Min(a, b) == IF a <= b THEN a ELSE b

Lower(ch) ==
    CASE ch = "A" -> "a"
      [] ch = "D" -> "d"
      [] ch = "E" -> "e"
      [] ch = "I" -> "i"
      [] ch = "Q" -> "q"
      [] ch = "R" -> "r"
      [] ch = "T" -> "t"
      [] ch = "V" -> "v"
      [] OTHER    -> ch

\* String.prototype.toLowerCase
toLowerCase(s) == [i \in 1..Len(s) |-> Lower(s[i])]

WhiteSpace == {" ", "\n", "\t"}

RECURSIVE trimStart(_)
trimStart(s) ==
    IF s # <<>> /\ Head(s) \in WhiteSpace THEN trimStart(Tail(s)) ELSE s

RECURSIVE trimEnd(_)
trimEnd(s) ==
    IF s # <<>> /\ s[Len(s)] \in WhiteSpace
    THEN trimEnd(SubSeq(s, 1, Len(s) - 1))
    ELSE s

\* String.prototype.trim
trim(s) == trimEnd(trimStart(s))

\* String.prototype.includes: needle occurs as a contiguous substring
includes(s, needle) ==
    \E i \in 1..(Len(s) - Len(needle) + 1) :
        SubSeq(s, i, i + Len(needle) - 1) = needle

\* ------------------------------------------------------------ withRetry core

\* the literal 'rate limit' the catch block searches the message for
RATE_LIMIT == <<"r", "a", "t", "e", " ", "l", "i", "m", "i", "t">>

\* messages of the errors an external model call is rejected with
MsgRateLimit   == <<"4", "2", "9", " ">> \o RATE_LIMIT
MsgRateLimitUp == <<"R", "a", "t", "e", " ", "l", "i", "m", "i", "t">>
MsgTimeout     == <<"t", "i", "m", "e", "d", " ", "o", "u", "t">>

Err(msg) == [name |-> "Error", message |-> msg]

LlmErrors == {Err(MsgRateLimit), Err(MsgRateLimitUp), Err(MsgTimeout)}

baseDelay == 1000
maxDelay == 60000

\* const delay = Math.min(1000 * Math.pow(2, attempt), 60000)
RetryDelayUncapped(attempt) == baseDelay * 2^attempt
RetryDelay(attempt) == Min(baseDelay * 2^attempt, maxDelay)

\* error.message.includes('rate limit') && attempt < maxRetries
ShouldRetryAlways(error, attempt, maxRetries) ==
    includes(error.message, RATE_LIMIT)
ShouldRetryAnyError(error, attempt, maxRetries) == attempt < maxRetries
ShouldRetryOffByOne(error, attempt, maxRetries) ==
    includes(error.message, RATE_LIMIT) /\ attempt < maxRetries - 1
ShouldRetry(error, attempt, maxRetries) ==
    includes(error.message, RATE_LIMIT) /\ attempt < maxRetries

\* what the catch block throws when it does not retry: throw error
Rethrown(error) == error

\* --------------------------------------------------------- Expense schema

\* the value of an absent property
undefined == "undefined"

\* categoryData = parseCategoryData(catData): category -> subcategories
categoryData ==
    ("Food" :> <<"Dining out", "Snacks">>) @@ ("Transportation" :> <<"Fuel">>)

\* const validCategories = Object.keys(categoryData)
validCategories == DOMAIN categoryData

\* required: true on a String path (an empty string does not pass either)
RequiredString(v) == v # undefined /\ v # ""

\* category: { enum: validCategories }
CategoryEnum(category) == category \in validCategories

\* subCategory.validate.validator, with this.category = category:
\*   (categoryData[this.category] || []).includes(subcat) for every subcat
SubCategoryValidatorSome(category, subcats) ==
    LET validSubcategories ==
            IF category \in DOMAIN categoryData THEN categoryData[category] ELSE <<>>
    IN  subcats = <<>> \/
        \E i \in 1..Len(subcats) :
            \E j \in 1..Len(validSubcategories) : validSubcategories[j] = subcats[i]
SubCategoryValidator(category, subcats) ==
    LET validSubcategories ==
            IF category \in DOMAIN categoryData THEN categoryData[category] ELSE <<>>
    IN  \A i \in 1..Len(subcats) :
            \E j \in 1..Len(validSubcategories) : validSubcategories[j] = subcats[i]

\* document validation run by save(): every path of expenseSchema
\* (required: true on the subCategory array passes for any array, the empty
\* one included)
Validates(doc) ==
    /\ RequiredString(doc.amount)
    /\ RequiredString(doc.category)
    /\ CategoryEnum(doc.category)
    /\ SubCategoryValidator(doc.category, doc.subCategory)
    /\ RequiredString(doc.response)

\* a property of a parsed JSON object
Prop(obj, key) == IF key \in DOMAIN obj THEN obj[key] ELSE undefined

\* new Expense({ amount, category, subCategory: data['sub-category'] || [], response })
NewExpense(id, expenseData) ==
    [ _id         |-> id,
      amount      |-> Prop(expenseData, "amount"),
      category    |-> Prop(expenseData, "category"),
      subCategory |-> IF "sub-category" \in DOMAIN expenseData
                      THEN expenseData["sub-category"] ELSE <<>>,
      response    |-> Prop(expenseData, "response") ]

NoDoc == [ _id |-> 0, amount |-> undefined, category |-> undefined,
           subCategory |-> <<>>, response |-> undefined ]

\* ------------------------------------------------------ program constants

\* async function withRetry(operation, maxRetries = 3)
maxRetriesDefault == 3

\* new ChatOpenAI({ ..., maxConcurrency: 1, ... })
maxConcurrency == 1

\* similaritySearch(query, k = 5)
kDefault == 5

VARIABLES
    \* --- one withRetry(operation, maxRetries) call observed on its own
    wMaxRetries,  \* the maxRetries argument
    wFailsFirst,  \* the operation: rejects with a rate-limit error this often,
    wThen,        \*   and from then on settles this way
    wAttempt,     \* the loop variable attempt
    wPc,          \* "loop" | "awaiting" | "sleeping" | "returned" | "thrown"
    wResult,      \* what the call settled with
    wCalls,       \* number of times operation() was invoked
    wSleeps,      \* the delays slept, in order
    \* --- the interaction loop; cycle c is the handler run for the c-th line
    lines,        \* the lines read from stdin so far
    exit,         \* "running" | "exit0" (process.exit(0)) | "crash"
    pc,           \* per cycle: the await it is suspended at
    call,         \* per cycle: its chain call: "idle" | "queued" | "inflight" | "sleeping"
    attempt,      \* per cycle: withRetry's attempt for the current chain call
    llmQueue,     \* the model client's queue of calls not yet sent
    intent,       \* per cycle: const intent
    expense,      \* per cycle: const expense (the Expense document)
    thrown,       \* per cycle: the error raised inside the try block
    reported,     \* per cycle: what console.error printed
    out,          \* per cycle: what the cycle printed on success
    expenseData,  \* per cycle: const expenseData (the parsed extraction reply)
    store,        \* the expenses collection of the document store
    dbConnection, \* the mongoose connection: "open" | "closed"
    vectorStore,  \* the service's this.vectorStore: attached handle and its documents
    disk,         \* the persisted index under VECTOR_STORE_PATH
    \* --- the VectorStoreService called on its own, one call after another
    sCalls,       \* number of calls made
    sOp,          \* the last call: its method and argument
    sReturn,      \* how the last call settled: its return value or its error
    sAdded,       \* the _ids of the expenses whose addExpense returned true
    \* --- parseCategoryData(data) run on a file
    tData,        \* the lines of the file (data.split('\n'))
    tIndex,       \* the forEach position
    tCategories,  \* const categories
    tCurrent,     \* let currentCategory
    tResult,      \* "idle" | "running" | "returned" | "thrown"
    \* --- addExpense calls running concurrently on the service
    handles,      \* every index object made so far: its documents
    cPc,          \* per call: where it is suspended
    cHandle,      \* per call: the index object its addDocuments works on
    cBuf          \* per call: the documents its pending save() is writing

wvars == <<wMaxRetries, wFailsFirst, wThen, wAttempt, wPc, wResult, wCalls, wSleeps>>

\* the loop's own state (the index it shares with the service is ivars)
lvars == <<lines, exit, pc, call, attempt, llmQueue, intent, expense, thrown,
           reported, out, expenseData, store, dbConnection>>

ivars == <<vectorStore, disk>>

pvars == <<lvars, ivars>>

svars == <<sCalls, sOp, sReturn, sAdded>>

tvars == <<tData, tIndex, tCategories, tCurrent, tResult>>

cvars == <<handles, cPc, cHandle, cBuf>>

vars == <<wMaxRetries, wFailsFirst, wThen, wAttempt, wPc, wResult, wCalls, wSleeps,
          lines, exit, pc, call, attempt, llmQueue, intent, expense, thrown,
          reported, out, expenseData, store, dbConnection, vectorStore, disk,
          sCalls, sOp, sReturn, sAdded,
          tData, tIndex, tCategories, tCurrent, tResult,
          handles, cPc, cHandle, cBuf>>

Cycles == 1..MaxLines

Adders == 1..MaxAdders

NoError == [name |-> "none", message |-> <<>>]

Values == {"v1", "v2"}

Pending == [type |-> "pending"]
Returned(v) == [type |-> "return", value |-> v]
Thrown(e) == [type |-> "throw", error |-> e]
Resolved(v) == [ok |-> TRUE, value |-> v]
Rejected(e) == [ok |-> FALSE, error |-> e]

\* how the i-th invocation of the wrapped operation settles
operation(i) ==
    IF i <= wFailsFirst THEN Rejected(Err(MsgRateLimit)) ELSE wThen

\* new Document({ pageContent: "Initialization document", metadata: { initialization: true } })
dummyDoc == [initialization |-> TRUE, id |-> undefined, category |-> undefined]

\* the Document addExpense builds for an expense: metadata.id is
\* expense._id.toString(), and the text carries the category tag
DocWithoutId(e) == [initialization |-> FALSE, id |-> undefined, category |-> e.category]
Doc(e) == [initialization |-> FALSE, id |-> ToString(e._id), category |-> e.category]

\* this.vectorStore = null, no handle made yet
Detached == [attached |-> FALSE, handle |-> 0, docs |-> <<>>]

NoDisk == [exists |-> FALSE, docs |-> <<>>]
FreshDisk == [exists |-> TRUE, docs |-> <<dummyDoc>>]

\* the program before its first line is read, with index directory d
PStart(d) ==
    /\ lines = <<>>
    /\ exit = "running"
    /\ pc = [c \in Cycles |-> "none"]
    /\ call = [c \in Cycles |-> "idle"]
    /\ attempt = [c \in Cycles |-> 0]
    /\ llmQueue = <<>>
    /\ intent = [c \in Cycles |-> <<>>]
    /\ expense = [c \in Cycles |-> NoDoc]
    /\ thrown = [c \in Cycles |-> NoError]
    /\ reported = [c \in Cycles |-> NoError]
    /\ out = [c \in Cycles |-> "none"]
    /\ expenseData = [c \in Cycles |-> <<>>]
    /\ store = {}
    /\ dbConnection = "open"
    /\ vectorStore = Detached
    /\ disk = d

\* no call made to the service on its own
SIdle ==
    /\ sCalls = 0
    /\ sOp = [method |-> "none", arg |-> undefined, fail |-> "none",
               pre |-> Detached, preDisk |-> NoDisk]
    /\ sReturn = [ok |-> TRUE, value |-> undefined]
    /\ sAdded = {}

\* let currentCategory = null
null == [set |-> FALSE, name |-> <<>>]

\* no file being parsed
TIdle ==
    /\ tData = <<>>
    /\ tIndex = 1
    /\ tCategories = <<>>
    /\ tCurrent = null
    /\ tResult = "idle"

\* no concurrent addExpense call made
CIdle ==
    /\ handles = <<>>
    /\ cPc = [t \in Adders |-> "idle"]
    /\ cHandle = [t \in Adders |-> 0]
    /\ cBuf = [t \in Adders |-> <<>>]

\* no withRetry call under observation
WIdle ==
    /\ wMaxRetries = 0
    /\ wFailsFirst = 0
    /\ wThen = Resolved("v1")
    /\ wAttempt = 1
    /\ wPc = "loop"
    /\ wResult = Pending
    /\ wCalls = 0
    /\ wSleeps = <<>>

WInit ==
    /\ wMaxRetries \in 0..MaxRetriesBound
    /\ wFailsFirst \in 0..(MaxRetriesBound + 1)
    /\ wThen \in {Resolved(v) : v \in Values}
                 \cup {Rejected(Err(MsgRateLimitUp)), Rejected(Err(MsgTimeout))}
    /\ wAttempt = 1
    /\ wPc = "loop"
    /\ wResult = Pending
    /\ wCalls = 0
    /\ wSleeps = <<>>
    /\ PStart(NoDisk)
    /\ SIdle
    /\ TIdle
    /\ CIdle

\* for (...; attempt <= maxRetries; ...) { try { return await operation();
WInvoke ==
    /\ wPc = "loop"
    /\ wAttempt <= wMaxRetries
    /\ wCalls' = wCalls + 1
    /\ wPc' = "awaiting"
    /\ UNCHANGED <<wMaxRetries, wFailsFirst, wThen, wAttempt, wResult, wSleeps>>
    /\ UNCHANGED <<pvars, svars, tvars, cvars>>

\* the loop condition fails: the function body ends, resolving undefined
WFallThrough ==
    /\ wPc = "loop"
    /\ wAttempt > wMaxRetries
    /\ wPc' = "returned"
    /\ wResult' = Returned("undefined")
    /\ UNCHANGED <<wMaxRetries, wFailsFirst, wThen, wAttempt, wCalls, wSleeps>>
    /\ UNCHANGED <<pvars, svars, tvars, cvars>>

\* operation() resolves: return its value
WResolve ==
    /\ wPc = "awaiting"
    /\ operation(wCalls).ok
    /\ wPc' = "returned"
    /\ wResult' = Returned(operation(wCalls).value)
    /\ UNCHANGED <<wMaxRetries, wFailsFirst, wThen, wAttempt, wCalls, wSleeps>>
    /\ UNCHANGED <<pvars, svars, tvars, cvars>>

\* operation() rejects: the catch block
WReject ==
    /\ wPc = "awaiting"
    /\ ~operation(wCalls).ok
    /\ LET e == operation(wCalls).error IN
       IF ShouldRetry(e, wAttempt, wMaxRetries)
       THEN /\ wSleeps' = Append(wSleeps, RetryDelay(wAttempt))
            /\ wPc' = "sleeping"
            /\ UNCHANGED wResult
       ELSE /\ wPc' = "thrown"
            /\ wResult' = Thrown(Rethrown(e))
            /\ UNCHANGED wSleeps
    /\ UNCHANGED <<wMaxRetries, wFailsFirst, wThen, wAttempt, wCalls>>
    /\ UNCHANGED <<pvars, svars, tvars, cvars>>

\* await sleep(delay) is over: attempt++
WWake ==
    /\ wPc = "sleeping"
    /\ wAttempt' = wAttempt + 1
    /\ wPc' = "loop"
    /\ UNCHANGED <<wMaxRetries, wFailsFirst, wThen, wResult, wCalls, wSleeps>>
    /\ UNCHANGED <<pvars, svars, tvars, cvars>>

NextRetry ==
    \/ WInvoke
    \/ WFallThrough
    \/ WResolve
    \/ WReject
    \/ WWake

SpecRetry == WInit /\ [][NextRetry]_vars

\* ------------------------------------------------------ the interaction loop

\* lines typed at the prompt
Inputs == {<<"q">>, <<"Q">>, <<"h", "i">>}

\* input.toLowerCase() === 'q'
IsQuit(input) == toLowerCase(input) = <<"q">>

ADD == <<"a", "d", "d">>
RETRIEVE == <<"r", "e", "t", "r", "i", "e", "v", "e">>

\* texts the model answers the intent prompt with
IntentReplies ==
    { ADD,
      <<" ", "A", "d", "d", "\n">>,
      RETRIEVE,
      <<"R", "E", "T", "R", "I", "E", "V", "E">>,
      <<"a", "d", "d", ".">> }

Json(obj) == [json |-> TRUE, obj |-> obj]
NotJson == [json |-> FALSE, obj |-> <<>>]

Candidate(amount, category, subs, response) ==
    ("amount" :> amount) @@ ("category" :> category)
        @@ ("sub-category" :> subs) @@ ("response" :> response)

\* texts the model answers the expense prompt with
ExtractReplies ==
    { NotJson,
      Json(Candidate("500", "Food", <<"Dining out">>, "lunch")),
      Json(Candidate("500", "Food", <<"Dining out", "Fuel">>, "lunch")),
      Json(Candidate("500", "Food", <<"dining out">>, "lunch")),
      Json(Candidate("500", "food", <<"Dining out">>, "lunch")),
      Json(Candidate("90", "Pets", <<>>, "vet")),
      Json(Candidate("90", "Transportation", <<"Fuel">>, "petrol")),
      Json(("amount" :> "500") @@ ("category" :> "Food") @@ ("response" :> "lunch")),
      Json(("category" :> "Food") @@ ("sub-category" :> <<"Snacks">>)
               @@ ("response" :> "lunch")) }

\* errors a rejected model call carries in the loop
CallErrors == {Err(MsgRateLimit), Err(MsgTimeout)}

SyntaxError == [name |-> "SyntaxError", message |-> <<"J", "S", "O", "N">>]
ValidationError == [name |-> "ValidationError", message |-> <<"v">>]
StoreError == [name |-> "MongoNetworkError", message |-> <<"s">>]
IndexError == [name |-> "Error", message |-> <<"i">>]

\* processUserInput's catch (error) { console.error('Error:', error.message) };
\* the line handler then prints the prompt again
CatchRethrow(c, e) ==
    /\ reported' = reported
    /\ pc' = [pc EXCEPT ![c] = "done"]
    /\ exit' = "crash"
Catch(c, e) ==
    /\ reported' = [reported EXCEPT ![c] = e]
    /\ pc' = [pc EXCEPT ![c] = "done"]
    /\ exit' = exit

\* rl.on('line'): the quit token
ReadQuit(input) ==
    /\ exit = "running"
    /\ Len(lines) < MaxLines
    /\ IsQuit(input)
    /\ lines' = Append(lines, input)
    /\ exit' = "exit0"
    /\ UNCHANGED <<pc, call, attempt, llmQueue, intent, expense, thrown, reported,
                   out, store, vectorStore, disk>>
    /\ UNCHANGED <<expenseData, dbConnection, wvars, svars, tvars, cvars>>

\* rl.on('line'): any other line starts processUserInput(input), which runs up to
\* its first await: intentChain.call -> withRetry -> chain.call
ReadLine(input) ==
    /\ exit = "running"
    /\ Len(lines) < MaxLines
    /\ ~IsQuit(input)
    /\ LET c == Len(lines) + 1 IN
        /\ lines' = Append(lines, input)
        /\ pc' = [pc EXCEPT ![c] = "intent"]
        /\ attempt' = [attempt EXCEPT ![c] = 1]
        /\ call' = [call EXCEPT ![c] = "queued"]
        /\ llmQueue' = Append(llmQueue, c)
    /\ UNCHANGED <<exit, intent, expense, thrown, reported, out, store,
                   vectorStore, disk>>
    /\ UNCHANGED <<expenseData, dbConnection, wvars, svars, tvars, cvars>>

InFlight == {c \in Cycles : call[c] = "inflight"}

\* the model client sends the next queued call when fewer than maxConcurrency
\* are in flight
LlmDispatchEnabled ==
    llmQueue # <<>> /\ Cardinality(InFlight) < maxConcurrency

LlmDispatch ==
    /\ exit = "running"
    /\ LlmDispatchEnabled
    /\ call' = [call EXCEPT ![Head(llmQueue)] = "inflight"]
    /\ llmQueue' = Tail(llmQueue)
    /\ UNCHANGED <<lines, exit, pc, attempt, intent, expense, thrown, reported,
                   out, store, vectorStore, disk>>
    /\ UNCHANGED <<expenseData, dbConnection, wvars, svars, tvars, cvars>>

\* a chain call rejects: withRetry's catch block, then processUserInput's
CallRejected(c, e) ==
    /\ exit = "running"
    /\ call[c] = "inflight"
    /\ IF ShouldRetry(e, attempt[c], maxRetriesDefault)
       THEN /\ call' = [call EXCEPT ![c] = "sleeping"]
            /\ UNCHANGED <<pc, thrown, reported, exit>>
       ELSE /\ call' = [call EXCEPT ![c] = "idle"]
            /\ thrown' = [thrown EXCEPT ![c] = Rethrown(e)]
            /\ Catch(c, Rethrown(e))
    /\ UNCHANGED <<lines, attempt, llmQueue, intent, expense, out, store,
                   vectorStore, disk>>
    /\ UNCHANGED <<expenseData, dbConnection, wvars, svars, tvars, cvars>>

\* await sleep(delay) is over: attempt++, operation() again
Wake(c) ==
    /\ exit = "running"
    /\ call[c] = "sleeping"
    /\ attempt' = [attempt EXCEPT ![c] = attempt[c] + 1]
    /\ call' = [call EXCEPT ![c] = "queued"]
    /\ llmQueue' = Append(llmQueue, c)
    /\ UNCHANGED <<lines, exit, pc, intent, expense, thrown, reported, out, store,
                   vectorStore, disk>>
    /\ UNCHANGED <<expenseData, dbConnection, wvars, svars, tvars, cvars>>

\* intentChain.call resolves: intent = text.toLowerCase().trim(); switch (intent)
IntentResolved(c, reply) ==
    /\ exit = "running"
    /\ pc[c] = "intent"
    /\ call[c] = "inflight"
    /\ LET i == trim(toLowerCase(reply)) IN
        /\ intent' = [intent EXCEPT ![c] = i]
        /\ CASE i = ADD ->
                  \* case 'add': expenseChain.call
                  /\ pc' = [pc EXCEPT ![c] = "extract"]
                  /\ attempt' = [attempt EXCEPT ![c] = 1]
                  /\ call' = [call EXCEPT ![c] = "queued"]
                  /\ llmQueue' = Append(llmQueue, c)
             [] i = RETRIEVE ->
                  \* case 'retrieve': vectorStore.similaritySearch
                  /\ pc' = [pc EXCEPT ![c] = "search"]
                  /\ call' = [call EXCEPT ![c] = "idle"]
                  /\ UNCHANGED <<attempt, llmQueue>>
             [] OTHER ->
                  \* no case matches and there is no default
                  /\ pc' = [pc EXCEPT ![c] = "done"]
                  /\ call' = [call EXCEPT ![c] = "idle"]
                  /\ UNCHANGED <<attempt, llmQueue>>
    /\ UNCHANGED <<lines, exit, expense, thrown, reported, out, store,
                   vectorStore, disk>>
    /\ UNCHANGED <<expenseData, dbConnection, wvars, svars, tvars, cvars>>

\* expenseChain.call resolves: JSON.parse(analysis.text); new Expense({...})
ExtractResolved(c, reply) ==
    /\ exit = "running"
    /\ pc[c] = "extract"
    /\ call[c] = "inflight"
    /\ call' = [call EXCEPT ![c] = "idle"]
    /\ IF reply.json
       THEN /\ expenseData' = [expenseData EXCEPT ![c] = reply.obj]
            /\ expense' = [expense EXCEPT ![c] = NewExpense(c, reply.obj)]
            /\ pc' = [pc EXCEPT ![c] = "save"]
            /\ UNCHANGED <<thrown, reported, exit>>
       ELSE /\ thrown' = [thrown EXCEPT ![c] = SyntaxError]
            /\ Catch(c, SyntaxError)
            /\ UNCHANGED <<expense, expenseData>>
    /\ UNCHANGED <<lines, attempt, llmQueue, intent, out, store, vectorStore, disk>>
    /\ UNCHANGED <<dbConnection, wvars, svars, tvars, cvars>>

\* the collection after doc.save() reached the store: validate, then insert
SavedStoreUnvalidated(doc) == store \cup {doc}
SavedStoreDropped(doc) == store
SavedStore(doc) == IF Validates(doc) THEN store \cup {doc} ELSE store

\* await expense.save()
Save(c, storeUp) ==
    /\ exit = "running"
    /\ pc[c] = "save"
    /\ store' = IF storeUp THEN SavedStore(expense[c]) ELSE store
    /\ IF ~Validates(expense[c])
       THEN /\ thrown' = [thrown EXCEPT ![c] = ValidationError]
            /\ Catch(c, ValidationError)
       ELSE IF ~storeUp
       THEN /\ thrown' = [thrown EXCEPT ![c] = StoreError]
            /\ Catch(c, StoreError)
       ELSE /\ pc' = [pc EXCEPT ![c] = "index"]
            /\ UNCHANGED <<thrown, reported, exit>>
    /\ UNCHANGED <<lines, call, attempt, llmQueue, intent, expense, out,
                   vectorStore, disk>>
    /\ UNCHANGED <<expenseData, dbConnection, wvars, svars, tvars, cvars>>

\* VectorStoreService.init(): load the index if hnswlib.index exists, else
\* create it from the dummy document and save it
InitHandle ==
    IF disk.exists
    THEN [attached |-> TRUE, handle |-> vectorStore.handle + 1, docs |-> disk.docs]
    ELSE [attached |-> TRUE, handle |-> vectorStore.handle + 1, docs |-> <<dummyDoc>>]
InitDisk == IF disk.exists THEN disk ELSE FreshDisk

\* await this.vectorStore.addDocuments([doc]): the documents are appended
addDocumentsTwice(docs, newDocs) == docs \o newDocs \o newDocs
addDocuments(docs, newDocs) == docs \o newDocs

\* if (!this.vectorStore) await this.init()
LazyHandle == IF vectorStore.attached THEN vectorStore ELSE InitHandle
LazyDisk == IF vectorStore.attached THEN disk ELSE InitDisk

\* await vectorStore.addExpense(expense); failAt: where the index fails, if it does
IndexAdd(c, failAt) ==
    /\ exit = "running"
    /\ pc[c] = "index"
    /\ failAt = "init" => ~vectorStore.attached
    /\ CASE failAt = "init" ->
              /\ thrown' = [thrown EXCEPT ![c] = IndexError]
              /\ Catch(c, IndexError)
              /\ UNCHANGED <<vectorStore, disk, out>>
         [] failAt = "add" ->
              /\ vectorStore' = LazyHandle
              /\ disk' = LazyDisk
              /\ thrown' = [thrown EXCEPT ![c] = IndexError]
              /\ Catch(c, IndexError)
              /\ UNCHANGED out
         [] failAt = "save" ->
              /\ vectorStore' = [LazyHandle EXCEPT
                                   !.docs = addDocuments(LazyHandle.docs, <<Doc(expense[c])>>)]
              /\ disk' = LazyDisk
              /\ thrown' = [thrown EXCEPT ![c] = IndexError]
              /\ Catch(c, IndexError)
              /\ UNCHANGED out
         [] OTHER ->
              /\ vectorStore' = [LazyHandle EXCEPT
                                   !.docs = addDocuments(LazyHandle.docs, <<Doc(expense[c])>>)]
              /\ disk' = [exists |-> TRUE,
                          docs |-> addDocuments(LazyHandle.docs, <<Doc(expense[c])>>)]
              /\ out' = [out EXCEPT ![c] = "saved"]
              /\ pc' = [pc EXCEPT ![c] = "done"]
              /\ UNCHANGED <<thrown, reported, exit>>
    /\ UNCHANGED <<lines, call, attempt, llmQueue, intent, expense, store>>
    /\ UNCHANGED <<expenseData, dbConnection, wvars, svars, tvars, cvars>>

\* this.vectorStore.similaritySearch(query, k): k nearest documents
TopK(docs, k) ==
    {hits \in SUBSET (1..Len(docs)) : Cardinality(hits) = Min(k, Len(docs))}

\* results.filter(doc => !doc.metadata?.initialization)
FilteredNone(docs, hits) == hits
Filtered(docs, hits) == {i \in hits : ~docs[i].initialization}

\* await vectorStore.similaritySearch(input), then the retrieve branch up to
\* its next await
Search(c, failAt) ==
    /\ exit = "running"
    /\ pc[c] = "search"
    /\ failAt = "init" => ~vectorStore.attached
    /\ CASE failAt = "init" ->
              \* init() throws outside similaritySearch's try block
              /\ thrown' = [thrown EXCEPT ![c] = IndexError]
              /\ Catch(c, IndexError)
              /\ UNCHANGED <<vectorStore, disk, out, call, attempt, llmQueue>>
         [] failAt = "search" ->
              \* catch (error) { return [] }; results.length === 0
              /\ vectorStore' = LazyHandle
              /\ disk' = LazyDisk
              /\ out' = [out EXCEPT ![c] = "no_match"]
              /\ pc' = [pc EXCEPT ![c] = "done"]
              /\ UNCHANGED <<thrown, reported, exit, call, attempt, llmQueue>>
         [] OTHER ->
              /\ vectorStore' = LazyHandle
              /\ disk' = LazyDisk
              /\ \E hits \in TopK(LazyHandle.docs, kDefault) :
                    IF Filtered(LazyHandle.docs, hits) = {}
                    THEN /\ out' = [out EXCEPT ![c] = "no_match"]
                         /\ pc' = [pc EXCEPT ![c] = "done"]
                         /\ UNCHANGED <<call, attempt, llmQueue>>
                    ELSE \* retrievalChain.call
                         /\ pc' = [pc EXCEPT ![c] = "summary"]
                         /\ attempt' = [attempt EXCEPT ![c] = 1]
                         /\ call' = [call EXCEPT ![c] = "queued"]
                         /\ llmQueue' = Append(llmQueue, c)
                         /\ UNCHANGED out
              /\ UNCHANGED <<thrown, reported, exit>>
    /\ UNCHANGED <<lines, intent, expense, store>>
    /\ UNCHANGED <<expenseData, dbConnection, wvars, svars, tvars, cvars>>

\* retrievalChain.call resolves: the analysis is printed
SummaryResolved(c) ==
    /\ exit = "running"
    /\ pc[c] = "summary"
    /\ call[c] = "inflight"
    /\ call' = [call EXCEPT ![c] = "idle"]
    /\ out' = [out EXCEPT ![c] = "summary"]
    /\ pc' = [pc EXCEPT ![c] = "done"]
    /\ UNCHANGED <<lines, exit, attempt, llmQueue, intent, expense, thrown,
                   reported, store, vectorStore, disk>>
    /\ UNCHANGED <<expenseData, dbConnection, wvars, svars, tvars, cvars>>

Init == WIdle /\ SIdle /\ TIdle /\ CIdle /\ \E d \in {NoDisk, FreshDisk} : PStart(d)

Next ==
    \/ \E input \in Inputs : ReadQuit(input)
    \/ \E input \in Inputs : ReadLine(input)
    \/ LlmDispatch
    \/ \E c \in Cycles, e \in CallErrors : CallRejected(c, e)
    \/ \E c \in Cycles : Wake(c)
    \/ \E c \in Cycles, reply \in IntentReplies : IntentResolved(c, reply)
    \/ \E c \in Cycles, reply \in ExtractReplies : ExtractResolved(c, reply)
    \/ \E c \in Cycles, storeUp \in BOOLEAN : Save(c, storeUp)
    \/ \E c \in Cycles, failAt \in {"none", "init", "add", "save"} : IndexAdd(c, failAt)
    \/ \E c \in Cycles, failAt \in {"none", "init", "search"} : Search(c, failAt)
    \/ \E c \in Cycles : SummaryResolved(c)

Spec == Init /\ [][Next]_vars

\* ------------------------------------- the vector store service on its own
\* The calls test-vector-store.js makes, each awaited before the next, in any
\* order and with any outcome of the index library and of the file system.

\* the expenses handed to addExpense
SExpenses ==
    {[_id |-> i, category |-> IF i = 1 THEN "Food" ELSE "Transportation"] :
        i \in 1..MaxExpenses}

\* the k of a search: one neighbour, or the default
Ks == {1, kDefault}

\* an index directory left by an earlier run that had indexed an expense
StockedDisk ==
    [exists |-> TRUE,
     docs |-> <<dummyDoc, [initialization |-> FALSE, id |-> "0", category |-> "Food"]>>]

TypeError == [name |-> "TypeError", message |-> <<>>]

\* a call starts: it is counted, and what it was given and found is noted
Called(method, arg, fail) ==
    /\ sCalls < MaxCalls
    /\ sCalls' = sCalls + 1
    /\ sOp' = [method |-> method, arg |-> arg, fail |-> fail,
               pre |-> vectorStore, preDisk |-> disk]

\* await vectorStore.init(); failAt "build": HNSWLib.load or fromDocuments
\* throws; failAt "save": the save of the new index throws
SInit(failAt) ==
    /\ Called("init", undefined, failAt)
    /\ failAt = "save" => ~disk.exists
    /\ CASE failAt = "build" ->
              /\ sReturn' = [ok |-> FALSE, value |-> IndexError]
              /\ UNCHANGED <<vectorStore, disk>>
         [] failAt = "save" ->
              /\ vectorStore' = InitHandle
              /\ sReturn' = [ok |-> FALSE, value |-> IndexError]
              /\ UNCHANGED disk
         [] OTHER ->
              /\ vectorStore' = InitHandle
              /\ disk' = InitDisk
              /\ sReturn' = [ok |-> TRUE, value |-> undefined]
    /\ UNCHANGED <<sAdded, lvars, wvars, tvars, cvars>>

\* await vectorStore.addExpense(r); failAt "init": the lazy init throws;
\* "add": addDocuments throws; "save": the save after it throws
SAddExpense(r, failAt) ==
    /\ Called("addExpense", r, failAt)
    /\ failAt = "init" => ~vectorStore.attached
    /\ CASE failAt = "init" ->
              /\ sReturn' = [ok |-> FALSE, value |-> IndexError]
              /\ UNCHANGED <<vectorStore, disk, sAdded>>
         [] failAt = "add" ->
              /\ vectorStore' = LazyHandle
              /\ disk' = LazyDisk
              /\ sReturn' = [ok |-> FALSE, value |-> IndexError]
              /\ UNCHANGED sAdded
         [] failAt = "save" ->
              /\ vectorStore' = [LazyHandle EXCEPT !.docs = addDocuments(LazyHandle.docs, <<Doc(r)>>)]
              /\ disk' = LazyDisk
              /\ sReturn' = [ok |-> FALSE, value |-> IndexError]
              /\ UNCHANGED sAdded
         [] OTHER ->
              /\ vectorStore' = [LazyHandle EXCEPT !.docs = addDocuments(LazyHandle.docs, <<Doc(r)>>)]
              /\ disk' = [exists |-> TRUE, docs |-> addDocuments(LazyHandle.docs, <<Doc(r)>>)]
              /\ sReturn' = [ok |-> TRUE, value |-> TRUE]
              /\ sAdded' = sAdded \cup {r._id}
    /\ UNCHANGED <<lvars, wvars, tvars, cvars>>

\* catch (error) { console.error(...); return []; }
SearchCaughtRethrow(error) == [ok |-> FALSE, value |-> error]
SearchCaught(error) == [ok |-> TRUE, value |-> {}]

\* await vectorStore.similaritySearch(query, k); failAt "init": the lazy init
\* throws; "search": the index's similaritySearch throws
SSimilaritySearch(k, failAt) ==
    /\ Called("similaritySearch", k, failAt)
    /\ failAt = "init" => ~vectorStore.attached
    /\ CASE failAt = "init" ->
              /\ sReturn' = [ok |-> FALSE, value |-> IndexError]
              /\ UNCHANGED <<vectorStore, disk>>
         [] failAt = "search" ->
              /\ vectorStore' = LazyHandle
              /\ disk' = LazyDisk
              /\ sReturn' = SearchCaught(IndexError)
         [] OTHER ->
              /\ vectorStore' = LazyHandle
              /\ disk' = LazyDisk
              /\ \E hits \in TopK(LazyHandle.docs, k) :
                    sReturn' = [ok |-> TRUE,
                                value |-> {LazyHandle.docs[i] :
                                             i \in Filtered(LazyHandle.docs, hits)}]
    /\ UNCHANGED <<sAdded, lvars, wvars, tvars, cvars>>

\* await vectorStore.deleteExpense(id): the class has no such method, the
\* call throws "vectorStore.deleteExpense is not a function"
SDeleteExpense(id) ==
    /\ Called("deleteExpense", id, "none")
    /\ sReturn' = [ok |-> FALSE, value |-> TypeError]
    /\ UNCHANGED <<vectorStore, disk, sAdded, lvars, wvars, tvars, cvars>>

InitVS == WIdle /\ SIdle /\ TIdle /\ CIdle /\ \E d \in {NoDisk, FreshDisk, StockedDisk} : PStart(d)

NextVS ==
    \/ \E failAt \in {"none", "build", "save"} : SInit(failAt)
    \/ \E r \in SExpenses, failAt \in {"none", "init", "add", "save"} : SAddExpense(r, failAt)
    \/ \E k \in Ks, failAt \in {"none", "init", "search"} : SSimilaritySearch(k, failAt)
    \/ \E i \in 1..MaxExpenses : SDeleteExpense(ToString(i))

SpecVS == InitVS /\ [][NextVS]_vars

\* --------------------------------------------------- claims about withRetry

WSettled == wPc \in {"returned", "thrown"}

\* the code's test for a rate-limit signal
RateLimitSignal(o) == ~o.ok /\ includes(o.error.message, RATE_LIMIT)

\* C1: when the operation fails with a rate-limit signal on attempts 1..n-1 and
\* succeeds on attempt n (1 <= n <= maxRetries), withRetry never invokes it
\* more than n times and settles by returning exactly the value of attempt n,
\* after exactly n invocations.
C1_ReturnsValueOfAttemptN ==
    LET n == wFailsFirst + 1 IN
    (wMaxRetries >= 1 /\ n <= wMaxRetries /\ wThen.ok) =>
        /\ wCalls <= n
        /\ wPc # "thrown"
        /\ WSettled => (wResult = Returned(wThen.value) /\ wCalls = n)

C1_Witness ==
    /\ wFailsFirst = 2 /\ wMaxRetries = 3 /\ wThen = Resolved("v2")
    /\ wPc = "returned" /\ wCalls = 3

\* C2 as stated: the delays slept within one call are strictly increasing and
\* each is at most 60 seconds.
C2_StrictlyIncreasing ==
    /\ \A i \in 1..Len(wSleeps) : wSleeps[i] <= 60000
    /\ \A i \in 1..(Len(wSleeps) - 1) : wSleeps[i] < wSleeps[i + 1]

\* C2 amended: the delays slept within one call never decrease, each is at most
\* 60 seconds, and they strictly increase until the 60 second cap is reached.
C2_IncreasingUpToCap ==
    /\ \A i \in 1..Len(wSleeps) : wSleeps[i] <= 60000
    /\ \A i \in 1..(Len(wSleeps) - 1) :
          \/ wSleeps[i] < wSleeps[i + 1]
          \/ (wSleeps[i] = 60000 /\ wSleeps[i + 1] = 60000)

C2_Witness == Len(wSleeps) >= 7 /\ wSleeps[1] = 2000 /\ wSleeps[7] = 60000

\* C3: when attempt n fails with an error that is not a rate-limit signal,
\* withRetry throws that same error: the operation is invoked n times and no
\* more, and no sleep follows the failure (n - 1 sleeps in all).
C3_OtherErrorPropagates ==
    LET n == wFailsFirst + 1 IN
    (n <= wMaxRetries /\ ~wThen.ok /\ ~RateLimitSignal(wThen)) =>
        /\ wCalls <= n
        /\ Len(wSleeps) <= n - 1
        /\ wPc # "returned"
        /\ WSettled => /\ wResult = Thrown(wThen.error)
                       /\ wCalls = n
                       /\ Len(wSleeps) = n - 1

C3_Witness ==
    /\ wFailsFirst = 1 /\ wMaxRetries = 3 /\ wThen = Rejected(Err(MsgTimeout))
    /\ wPc = "thrown" /\ wCalls = 2 /\ Len(wSleeps) = 1

AllRateLimited == wMaxRetries >= 1 /\ wFailsFirst >= wMaxRetries

\* C4 as stated: when every attempt fails with a rate-limit signal, the
\* operation is invoked exactly maxRetries times, no sleep follows the last
\* attempt, and the call fails with an error of the distinct kind
\* RateLimitExceededError carrying the last attempt's error.
C4_RateLimitExceededError ==
    (AllRateLimited /\ WSettled) =>
        /\ wCalls = wMaxRetries
        /\ Len(wSleeps) = wMaxRetries - 1
        /\ wResult.type = "throw"
        /\ wResult.error.name = "RateLimitExceededError"
        /\ wResult.error.message = operation(wMaxRetries).error.message

\* C4 amended: when every attempt fails with a rate-limit signal, the
\* operation is invoked exactly maxRetries times, no sleep follows the last
\* attempt, and the call fails by rethrowing the last attempt's error itself.
C4_RethrowsLastError ==
    AllRateLimited =>
        /\ wCalls <= wMaxRetries
        /\ Len(wSleeps) <= wMaxRetries - 1
        /\ wPc # "returned"
        /\ WSettled => /\ wCalls = wMaxRetries
                       /\ Len(wSleeps) = wMaxRetries - 1
                       /\ wResult = Thrown(operation(wMaxRetries).error)

C4_Witness ==
    /\ wMaxRetries = 3 /\ wFailsFirst >= 3
    /\ wPc = "thrown" /\ wCalls = 3 /\ Len(wSleeps) = 2

\* ------------------------------------------- claims about the interaction loop

\* calls the model client has sent and not yet seen settle never exceed
\* maxConcurrency
RequestsSerialized == Cardinality(InFlight) <= maxConcurrency

\* wrapped operations started by withRetry and not yet settled
OperationsStarted == {c \in Cycles : call[c] \in {"queued", "inflight"}}

\* C5: at most one wrapped operation is started and not yet completed: the
\* wrapper never starts an operation while another one, of the same or of
\* another input cycle, is still pending.
C5_OneOperationAtATime == Cardinality(OperationsStarted) <= 1

\* C6: the cycle of line i+1 does not begin before the cycle of line i has
\* completed, so no two input cycles are in progress at once.
C6_OneCycleAtATime ==
    \A c \in Cycles : (c + 1 \in Cycles /\ pc[c + 1] # "none") => pc[c] = "done"

\* C7: whatever error is raised inside a cycle, it is reported and the cycle
\* ends with the process still running; the process never ends on an error,
\* and it ends only when the last line read is the quit token.
C7_ErrorsReportedLoopContinues ==
    /\ exit # "crash"
    /\ exit = "exit0" => (lines # <<>> /\ IsQuit(lines[Len(lines)]))
    /\ \A c \in Cycles :
          thrown[c] # NoError => (reported[c] = thrown[c] /\ pc[c] = "done")

C7_Witness ==
    /\ exit = "running"
    /\ thrown[1] = ValidationError /\ reported[1] = ValidationError
    /\ thrown[2] = IndexError /\ reported[2] = IndexError
    /\ pc[1] = "done" /\ pc[2] = "done"

\* category is a key of the taxonomy and every subcategory is in its list
InTaxonomy(doc) ==
    /\ doc.category \in DOMAIN categoryData
    /\ \A i \in 1..Len(doc.subCategory) :
          \E j \in 1..Len(categoryData[doc.category]) :
              categoryData[doc.category][j] = doc.subCategory[i]

\* the candidate carries an amount and a confirmation text
HasAmountAndResponse(doc) == doc.amount # undefined /\ doc.response # undefined

\* cycle c built its Expense and save() has settled
SaveSettled(c) == expense[c] # NoDoc /\ pc[c] \in {"index", "done"}

\* C8: for every expense candidate (amount and confirmation text present)
\* whose save() reached the store, the record is persisted if and only if its
\* category is a taxonomy key and each of its subcategories is in that
\* category's list, by exact match.
C8_PromotionIffInTaxonomy ==
    \A c \in Cycles :
        (SaveSettled(c) /\ HasAmountAndResponse(expense[c]) /\ thrown[c] # StoreError)
            => ((expense[c] \in store) <=> InTaxonomy(expense[c]))

C8_Witness ==
    \E c, d \in Cycles :
        /\ SaveSettled(c) /\ expense[c] \in store
        /\ SaveSettled(d) /\ expense[d].category = "Food"
        /\ expense[d].subCategory = <<"Dining out", "Fuel">>
        /\ expense[d] \notin store

\* no record and no index document carries cycle c's identifier
NothingOf(c) ==
    /\ \A r \in store : r._id # c
    /\ \A i \in 1..Len(vectorStore.docs) : vectorStore.docs[i].id # ToString(c)
    /\ \A i \in 1..Len(disk.docs) : disk.docs[i].id # ToString(c)

\* C9: when save() rejects a candidate on validation, the step leaves the
\* document store, the attached index and the persisted index unchanged, and
\* the cycle has no record persisted and no index document added.
C9_FailedPromotionChangesNothing ==
    /\ [](\A c \in Cycles : thrown[c] = ValidationError => NothingOf(c))
    /\ [][\A c \in Cycles :
             (thrown[c] = NoError /\ thrown'[c] = ValidationError)
                 => (store' = store /\ vectorStore' = vectorStore /\ disk' = disk)]_vars

C9_Witness ==
    \E c, d \in Cycles :
        /\ thrown[c] = ValidationError /\ pc[c] = "done"
        /\ expense[c].category = "food"
        /\ out[d] = "saved"

\* C10: when the lower-cased, trimmed reply to the intent prompt is neither
\* 'add' nor 'retrieve', the cycle ends with a classification error reported,
\* and neither branch has run.
C10_UnmatchedIntentSurfaced ==
    \A c \in Cycles :
        (pc[c] = "done" /\ thrown[c] = NoError /\ intent[c] \notin {ADD, RETRIEVE})
            => (reported[c] # NoError /\ expense[c] = NoDoc /\ out[c] = "none")

RequiredFields == {"amount", "category", "sub-category", "response"}

\* cycle c received its extraction reply and it parsed as JSON
Extracted(c) == expense[c] # NoDoc

\* C11: in an add cycle, when the extraction reply is not valid JSON or lacks
\* one of amount, category, sub-category, response, the cycle is aborted with
\* an error reported: it never reaches the index write, no record is persisted
\* and no index document is added.
C11_IncompleteReplyAborts ==
    \A c \in Cycles :
        (\/ thrown[c] = SyntaxError
         \/ (Extracted(c) /\ ~(RequiredFields \subseteq DOMAIN expenseData[c])))
            => /\ pc[c] # "index"
               /\ NothingOf(c)
               /\ pc[c] = "done" => reported[c] # NoError

\* C17: once the quit token is read the process has ended (no further line is
\* accepted) with the document store connection closed.
C17_QuitClosesStore == exit = "exit0" => dbConnection = "closed"

\* C18: the process never terminates while a cycle is in progress; in
\* particular no add cycle is cut off between its store write and its index
\* write.
C18_QuitOnlyBetweenCycles ==
    exit = "exit0" => \A c \in Cycles : pc[c] \in {"none", "done"}

\* a non-sentinel index document carries the identifier of a persisted record
Backed(doc) == doc.initialization \/ \E r \in store : ToString(r._id) = doc.id

\* C20: every non-sentinel document of the attached and of the persisted
\* index carries the identifier of a record persisted in the document store.
C20_IndexedImpliesPersisted ==
    /\ \A i \in 1..Len(vectorStore.docs) : Backed(vectorStore.docs[i])
    /\ \A i \in 1..Len(disk.docs) : Backed(disk.docs[i])

\* the converse fails: a record persisted whose index write failed, next to
\* one that was indexed
C20_Witness ==
    \E c, d \in Cycles :
        /\ thrown[c] = IndexError /\ expense[c] \in store /\ pc[c] = "done"
        /\ \A i \in 1..Len(vectorStore.docs) : vectorStore.docs[i].id # ToString(c)
        /\ out[d] = "saved"
        /\ \E i \in 1..Len(disk.docs) : disk.docs[i].id = ToString(d)

\* ------------------------------------------------------ parseCategoryData
\* Expense.js reads cat_data.txt and parses it when the module is loaded.

Digits == {"0", "1", "2", "3", "4", "5", "6", "7", "8", "9"}

\* the header line's text, 'Expense Categories:'
HEADER ==
    <<"E", "x", "p", "e", "n", "s", "e", " ",
      "C", "a", "t", "e", "g", "o", "r", "i", "e", "s", ":">>

\* length of the longest prefix of s made of characters of set
RECURSIVE LeadCount(_, _)
LeadCount(s, set) ==
    IF s # <<>> /\ Head(s) \in set THEN 1 + LeadCount(Tail(s), set) ELSE 0

\* s without its first n characters
Drop(s, n) == SubSeq(s, n + 1, Len(s))

\* line.match(/^\d+\.\s+(.+)/): whether it matches, and its group 1. \d+ takes
\* the whole digit run; \s+ takes the whole whitespace run unless that leaves
\* nothing for (.+), in which case it gives back its last character
categoryMatch(line) ==
    LET d == LeadCount(line, Digits)
        rest == Drop(line, d + 1)
        w == LeadCount(rest, WhiteSpace)
    IN  IF d >= 1 /\ Len(line) > d /\ line[d + 1] = "." /\ w >= 1
        THEN IF Len(rest) > w THEN [matched |-> TRUE, group1 |-> Drop(rest, w)]
             ELSE IF w >= 2 THEN [matched |-> TRUE, group1 |-> <<rest[w]>>]
             ELSE [matched |-> FALSE, group1 |-> <<>>]
        ELSE [matched |-> FALSE, group1 |-> <<>>]

\* String.prototype.startsWith
startsWith(s, prefix) ==
    Len(s) >= Len(prefix) /\ SubSeq(s, 1, Len(prefix)) = prefix

\* line.replace('-', ''): the first '-' removed
RECURSIVE replaceDash(_)
replaceDash(s) ==
    IF s = <<>> THEN <<>>
    ELSE IF Head(s) = "-" THEN Tail(s)
    ELSE <<Head(s)>> \o replaceDash(Tail(s))

\* if (!line.trim() || line.includes('Expense Categories:')) return;
Skipped(line) == trim(line) = <<>> \/ includes(line, HEADER)

\* line.trim().startsWith('-')
IsBullet(line) == startsWith(trim(line), <<"-">>)

\* the truthiness of currentCategory: neither null nor ''
Truthy(current) == current.set /\ current.name # <<>>

\* the lines a definition file is made of
FileLines ==
    { <<"1", ".", " ", "A">>,        \* a category
      <<"1", "2", ".", " ", "B", " ">>, \* a category, two-digit ordinal
      <<"-", " ", "x">>,             \* a bullet
      <<" ", "-", "y", "-", "z">>,   \* an indented bullet with a dash inside
      <<>>,                          \* an empty line
      <<" ">>,                       \* a blank line
      HEADER,                        \* the header
      <<"z">>,                       \* neither
      <<"1", ".", " ", " ">> }       \* an ordinal followed by blanks only

RECURSIVE Files(_)
Files(n) ==
    IF n = 0 THEN {<<>>}
    ELSE LET shorter == Files(n - 1)
         IN  shorter \cup {Append(f, l) : f \in {g \in shorter : Len(g) = n - 1},
                                         l \in FileLines}

\* fs.readFileSync(catDataPath, 'utf8') then parseCategoryData(catData) up to
\* its forEach
TRead(file) ==
    /\ tResult = "idle"
    /\ tData' = file
    /\ tIndex' = 1
    /\ tCategories' = <<>>
    /\ tCurrent' = null
    /\ tResult' = "running"
    /\ UNCHANGED <<pvars, wvars, svars, cvars>>

\* fs.readFileSync throws: there is no cat_data.txt
TReadMissing ==
    /\ tResult = "idle"
    /\ tResult' = "thrown"
    /\ UNCHANGED <<tData, tIndex, tCategories, tCurrent, pvars, wvars, svars, cvars>>

\* one call of the forEach callback
TLine ==
    /\ tResult = "running"
    /\ tIndex <= Len(tData)
    /\ tIndex' = tIndex + 1
    /\ LET line == tData[tIndex]
           m == categoryMatch(line)
       IN  IF Skipped(line)
           THEN UNCHANGED <<tCategories, tCurrent>>
           ELSE IF m.matched
           THEN /\ tCurrent' = [set |-> TRUE, name |-> trim(m.group1)]
                /\ tCategories' = (trim(m.group1) :> <<>>) @@ tCategories
           ELSE IF Truthy(tCurrent) /\ IsBullet(line)
           THEN /\ tCategories' =
                      [tCategories EXCEPT
                          ![tCurrent.name] = Append(@, trim(replaceDash(line)))]
                /\ UNCHANGED tCurrent
           ELSE UNCHANGED <<tCategories, tCurrent>>
    /\ UNCHANGED <<tData, tResult, pvars, wvars, svars, cvars>>

\* return categories;
TReturn ==
    /\ tResult = "running"
    /\ tIndex > Len(tData)
    /\ tResult' = "returned"
    /\ UNCHANGED <<tData, tIndex, tCategories, tCurrent, pvars, wvars, svars, cvars>>

InitParse == WIdle /\ SIdle /\ TIdle /\ CIdle /\ PStart(NoDisk)

NextParse ==
    \/ \E file \in Files(MaxFileLines) \ {<<>>} : TRead(file)
    \/ TReadMissing
    \/ TLine
    \/ TReturn

SpecParse == InitParse /\ [][NextParse]_vars

\* ------------------------------------------- concurrent addExpense calls
\* addExpense calls started by overlapping cycles run interleaved at their
\* awaits; the code between two awaits of one call runs without interruption.

\* the expense call t adds
CExpense(t) == [_id |-> t, category |-> "Food"]

\* this.vectorStore = h, an index object of the heap hs
Attach(h, hs) == [attached |-> TRUE, handle |-> h, docs |-> hs[h]]

\* the other locals of a call stay as they are
CKeep(t, next) ==
    /\ cPc' = [cPc EXCEPT ![t] = next]
    /\ UNCHANGED <<lvars, wvars, svars, tvars>>

\* addExpense(expense) up to its first await: with no index attached, init()
\* up to its await of HNSWLib.load or HNSWLib.fromDocuments; otherwise
\* this.vectorStore.addDocuments([doc]) is called
CStart(t) ==
    /\ cPc[t] = "idle"
    /\ IF vectorStore.attached
       THEN /\ cHandle' = [cHandle EXCEPT ![t] = vectorStore.handle]
            /\ CKeep(t, "adding")
       ELSE /\ CKeep(t, IF disk.exists THEN "loading" ELSE "creating")
            /\ UNCHANGED cHandle
    /\ UNCHANGED <<handles, cBuf, vectorStore, disk>>

\* HNSWLib.load resolves: this.vectorStore = the loaded index; init() returns
\* and addExpense goes on to this.vectorStore.addDocuments([doc])
CLoaded(t) ==
    /\ cPc[t] = "loading"
    /\ handles' = Append(handles, disk.docs)
    /\ vectorStore' = Attach(Len(handles) + 1, handles')
    /\ cHandle' = [cHandle EXCEPT ![t] = Len(handles) + 1]
    /\ CKeep(t, "adding")
    /\ UNCHANGED <<cBuf, disk>>

\* HNSWLib.fromDocuments([dummyDoc]) resolves: this.vectorStore = the new
\* index, and this.vectorStore.save(VECTOR_STORE_PATH) is called
CCreated(t) ==
    /\ cPc[t] = "creating"
    /\ handles' = Append(handles, <<dummyDoc>>)
    /\ vectorStore' = Attach(Len(handles) + 1, handles')
    /\ cBuf' = [cBuf EXCEPT ![t] = <<dummyDoc>>]
    /\ CKeep(t, "initSaving")
    /\ UNCHANGED <<cHandle, disk>>

\* init()'s save resolves; init() returns and addExpense goes on to
\* this.vectorStore.addDocuments([doc]), on the index attached by now
CInitSaved(t) ==
    /\ cPc[t] = "initSaving"
    /\ disk' = [exists |-> TRUE, docs |-> cBuf[t]]
    /\ cHandle' = [cHandle EXCEPT ![t] = vectorStore.handle]
    /\ CKeep(t, "adding")
    /\ UNCHANGED <<handles, cBuf, vectorStore>>

\* addDocuments resolves: the document is in the index object it was called
\* on; this.vectorStore.save(VECTOR_STORE_PATH) is called on the index
\* attached by now
CAdded(t) ==
    /\ cPc[t] = "adding"
    /\ handles' = [handles EXCEPT
                      ![cHandle[t]] = addDocuments(@, <<Doc(CExpense(t))>>)]
    /\ vectorStore' = Attach(vectorStore.handle, handles')
    /\ cBuf' = [cBuf EXCEPT ![t] = handles'[vectorStore.handle]]
    /\ CKeep(t, "saving")
    /\ UNCHANGED <<cHandle, disk>>

\* the save resolves; return true
CSaved(t) ==
    /\ cPc[t] = "saving"
    /\ disk' = [exists |-> TRUE, docs |-> cBuf[t]]
    /\ CKeep(t, "returned")
    /\ UNCHANGED <<handles, cHandle, cBuf, vectorStore>>

InitCI ==
    WIdle /\ SIdle /\ TIdle /\ CIdle /\ \E d \in {NoDisk, FreshDisk, StockedDisk} : PStart(d)

NextCI ==
    \/ \E t \in Adders : CStart(t)
    \/ \E t \in Adders : CLoaded(t)
    \/ \E t \in Adders : CCreated(t)
    \/ \E t \in Adders : CInitSaved(t)
    \/ \E t \in Adders : CAdded(t)
    \/ \E t \in Adders : CSaved(t)

SpecCI == InitCI /\ [][NextCI]_vars

\* ------------------------------------ claims about the vector store service

\* C12: a second init() after a successful first one leaves the service
\* attached to the same index handle with the same contents.
C12_SecondInitSameHandle ==
    (sOp.method = "init" /\ sReturn.ok /\ sOp.pre.attached) => vectorStore = sOp.pre

\* C13: no document carrying the initialization flag is returned by
\* similaritySearch, whatever calls came before and whatever k.
C13_SentinelNeverReturned ==
    (sOp.method = "similaritySearch" /\ sReturn.ok) =>
        \A doc \in sReturn.value : ~doc.initialization

\* a search over an index holding an expense, wide enough to reach the sentinel
C13_Witness ==
    /\ sOp.method = "similaritySearch" /\ sOp.fail = "none"
    /\ sOp.arg >= Len(vectorStore.docs)
    /\ \E i \in 1..Len(vectorStore.docs) : vectorStore.docs[i].initialization
    /\ sReturn.value # {}

\* C14: once addExpense(r) has returned true, a similaritySearch that does not
\* fail and asks for at least as many neighbours as the index holds documents
\* returns a document whose metadata id is r's _id as a string.
C14_AddedIsFound ==
    (/\ sOp.method = "similaritySearch" /\ sOp.fail = "none"
     /\ sOp.arg >= Len(vectorStore.docs))
        => \A id \in sAdded : \E doc \in sReturn.value : doc.id = ToString(id)

\* both expenses added to an index left by an earlier run, then searched
C14_Witness ==
    /\ sOp.method = "similaritySearch" /\ sOp.fail = "none"
    /\ sOp.arg >= Len(vectorStore.docs)
    /\ sOp.preDisk.exists /\ Len(sOp.preDisk.docs) > 2
    /\ Cardinality(sAdded) = 2

\* the nearest-neighbour search of the last call raised an error
SearchRaised == sOp.method = "similaritySearch" /\ sOp.fail = "search"

\* C15 as stated: when the nearest-neighbour search raises, similaritySearch
\* returns an empty list and the attached handle and the index contents are
\* what they were before the call.
C15_FailedSearchChangesNothing ==
    SearchRaised =>
        /\ sReturn.ok /\ sReturn.value = {}
        /\ vectorStore = sOp.pre
        /\ disk = sOp.preDisk

\* C15 amended: when the nearest-neighbour search raises, similaritySearch
\* returns an empty list; on a service that was attached the handle and the
\* index contents are unchanged, on one that was not the only change is the
\* attachment made by the lazy init() that precedes the search.
C15_FailedSearchOnlyInitializes ==
    SearchRaised =>
        /\ sReturn.ok /\ sReturn.value = {}
        /\ sOp.pre.attached => vectorStore = sOp.pre /\ disk = sOp.preDisk
        /\ ~sOp.pre.attached =>
              /\ vectorStore.attached
              /\ vectorStore.docs = (IF sOp.preDisk.exists THEN sOp.preDisk.docs
                                                           ELSE <<dummyDoc>>)
              /\ disk.docs = vectorStore.docs

\* a failed search on a service holding an added expense
C15_Witness ==
    /\ SearchRaised
    /\ sOp.pre.attached
    /\ sAdded # {}

\* C16: deleteExpense(id) completes without error, and afterwards neither the
\* attached nor the persisted index holds a document with that id.
C16_DeleteRemoves ==
    sOp.method = "deleteExpense" =>
        /\ sReturn.ok
        /\ \A i \in 1..Len(vectorStore.docs) : vectorStore.docs[i].id # sOp.arg
        /\ \A i \in 1..Len(disk.docs) : disk.docs[i].id # sOp.arg

\* ------------------------------------------- claims about the taxonomy load

\* line i of the file is a category line, 'ordinal. Name'
IsCategoryLine(line) == ~Skipped(line) /\ categoryMatch(line).matched

\* a bullet line stands before any category line
BulletBeforeCategory(data) ==
    \E i \in 1..Len(data) :
        /\ ~Skipped(data[i])
        /\ ~categoryMatch(data[i]).matched
        /\ IsBullet(data[i])
        /\ \A j \in 1..(i - 1) : ~IsCategoryLine(data[j])

\* C19: loading a definition in which a bullet line stands before any
\* 'ordinal. Name' line fails with an error; it never returns a taxonomy from
\* which that line has been dropped.
C19_BulletBeforeCategoryFails ==
    BulletBeforeCategory(tData) => tResult # "returned"

\* ------------------------------------------------ claims about add cycles

\* C22: every record in the document store has a category that is a taxonomy
\* key and a non-empty subcategory list whose every element is allowed for
\* that category.
C22_PersistedHasSubcategories ==
    \A r \in store :
        /\ r.category \in DOMAIN categoryData
        /\ r.subCategory # <<>>
        /\ \A i \in 1..Len(r.subCategory) :
              \E j \in 1..Len(categoryData[r.category]) :
                  categoryData[r.category][j] = r.subCategory[i]

\* C23: similaritySearch never throws to its caller: whatever fails in the
\* index, the lazy init() included, it returns an empty list.
C23_SearchNeverThrows ==
    (sOp.method = "similaritySearch" /\ sOp.fail # "none") =>
        sReturn.ok /\ sReturn.value = {}

\* the documents of a list that carry the identifier of cycle c
DocsOf(docs, c) == {i \in 1..Len(docs) : docs[i].id = ToString(c)}

\* C24: a cycle persists at most one record and adds at most one index
\* document, in the attached and in the persisted index, however many times
\* its model calls were retried.
C24_AtMostOneRecordAndDocument ==
    \A c \in Cycles :
        /\ Cardinality({r \in store : r._id = c}) <= 1
        /\ Cardinality(DocsOf(vectorStore.docs, c)) <= 1
        /\ Cardinality(DocsOf(disk.docs, c)) <= 1

\* an add cycle that completed after its extraction call was retried twice
C24_Witness ==
    \E c \in Cycles :
        /\ out[c] = "saved"
        /\ attempt[c] = maxRetriesDefault
        /\ expense[c] \in store
        /\ DocsOf(vectorStore.docs, c) # {}
        /\ DocsOf(disk.docs, c) # {}

\* --------------------------------- claims about concurrent addExpense calls

\* docs holds the document of call t
HoldsDocOf(docs, t) == \E i \in 1..Len(docs) : docs[i].id = ToString(t)

\* C21: every addExpense that has returned true has its document in the
\* attached index and in the persisted index, however the calls that started
\* on a service not yet attached were interleaved.
C21_NoAddedDocumentLost ==
    \A t \in Adders :
        cPc[t] = "returned" =>
            /\ HoldsDocOf(vectorStore.docs, t)
            /\ HoldsDocOf(disk.docs, t)

====
